---- MODULE Spec2Model ----
(***************************************************************************)
(* A model of disgord's user entity (struct_user.go): the User value with  *)
(* its embedded sync.RWMutex, the copy protocol (CopyOverTo / DeepCopy),   *)
(* the unlocked read accessors, MarshalJSON, and the session dispatch of   *)
(* SendMsg.  Caller goroutines are the threads; every Go statement that    *)
(* touches shared state is one step.                                       *)
(***************************************************************************)
EXTENDS Integers, Sequences, FiniteSets, TLC

VARIABLES
    users,      \* the User objects allocated so far: address -> field values
    heap,       \* the string cells Avatar pointers refer to: address -> string
    rw,         \* the sync.RWMutex embedded in each User
    presence,   \* one UserPresence object (an entity that is not a User)
    th,         \* each caller goroutine: its position in the call it runs
    calls,      \* how many calls have been started
    muts        \* how many direct field assignments callers have made

vars == <<users, heap, rw, presence, th, calls, muts>>

\* ------------------------------------------------------------------ bounds

\* Calls started over a run in which any method may be called.
MaxCalls == 2

\* Calls started over a run of one scenario.
MaxRepeat == 4

\* Direct field assignments made by callers over a run.
MaxMutations == 1

\* The caller goroutines.
Threads == {1, 2}

\* ------------------------------------------------------------------ values

Nil == "nil"

\* The nil *string.
NilPtr == 0

\* An interface{} value holding a *User: its dynamic type and the address.
UserRef(a) == [kind |-> "User", addr |-> a]

\* An interface{} value holding the *UserPresence: a target that is no *User.
PresenceRef == [kind |-> "UserPresence", addr |-> 1]

NoRef == [kind |-> "none", addr |-> 0]

ErrUnsupportedType == "argument given is not a *User type"

ErrNotImplemented == "not implemented"

\* The fields of User in declaration order.
Fields ==
    <<"ID", "Username", "Discriminator", "Email", "Avatar", "Token",
      "Verified", "MFAEnabled", "Bot">>

\* The fields CopyOverTo assigns one by one, in statement order.
CopyFields ==
    <<"ID", "Username", "Discriminator", "Email", "Token", "Verified",
      "MFAEnabled", "Bot">>

\* &User{}: every field at its zero value, Avatar nil.
NewUser ==
    [ID |-> 0, Username |-> "", Discriminator |-> "", Email |-> "",
     Avatar |-> NilPtr, Token |-> "", Verified |-> FALSE,
     MFAEnabled |-> FALSE, Bot |-> FALSE]

\* The zero sync.RWMutex: no reader, rw.w free.
\*   readers: the goroutines holding the read lock
\*   w:       the goroutine that has taken rw.w and announced itself (0: none)
\*   held:    whether that writer has seen the readers drain and owns the lock
NewRWMutex == [readers |-> {}, w |-> 0, held |-> FALSE]

\* &UserPresence{} hydrated with a current activity.
InitPresence == [Game |-> "game", Nick |-> "nick", Status |-> "online"]

\* A goroutine that runs no call.
Idle ==
    [pc |-> "idle", op |-> Nil, self |-> 0, other |-> NoRef, arg |-> <<>>,
     i |-> 0, acc |-> <<>>, msg |-> <<>>, log |-> <<>>, answers |-> <<>>,
     ret |-> <<>>, err |-> Nil]

Addrs == 1..Len(users)

\* The shared cache entries; later addresses are the results of DeepCopy.
Shared == {1, 2}

\* ------------------------------------------------------------- goroutines

Set(t, r) == th' = [th EXCEPT ![t] = r]

Goto(t, label) == Set(t, [th[t] EXCEPT !.pc = label])

\* A caller starts a call of method op on user u, with argument o (the
\* target of CopyOverTo) or a (the message or content of SendMsg).
Begin(t, op, entry, u, o, a) ==
    /\ th[t].pc = "idle"
    /\ calls' = calls + 1
    /\ Set(t, [Idle EXCEPT !.pc = entry, !.op = op, !.self = u, !.other = o,
                           !.i = 1, !.arg = a])
    /\ UNCHANGED <<users, heap, rw, presence, muts>>

\* The caller takes the results of the call that returned and goes on.
Resume(t) ==
    /\ th[t].pc = "done"
    /\ Set(t, Idle)
    /\ UNCHANGED <<users, heap, rw, presence, calls, muts>>

\* ------------------------------------------------------------ sync.RWMutex

\* An RLock that does not look at the writer.
CanRLockUnguarded(x) == TRUE

\* RLock blocks while a writer holds rw.w and has announced itself.
CanRLock(x) == rw[x].w = 0

DoRLock(t, x) == rw' = [rw EXCEPT ![x].readers = @ \cup {t}]

\* An RUnlock that leaves the reader registered.
DoRUnlockKeepsReader(t, x) == rw' = rw

DoRUnlock(t, x) == rw' = [rw EXCEPT ![x].readers = @ \ {t}]

\* A Lock that does not wait for rw.w.
CanLockAnnounceUnguarded(x) == TRUE

\* Lock first takes rw.w (excluding other writers) and announces the writer
\* to the readers; from then on RLock blocks.
CanLockAnnounce(x) == rw[x].w = 0

DoLockAnnounce(t, x) == rw' = [rw EXCEPT ![x].w = t]

\* ... and then waits until the active readers have departed.
CanLockAcquire(x) == rw[x].readers = {}

DoLockAcquire(t, x) == rw' = [rw EXCEPT ![x].held = TRUE]

\* An Unlock that leaves rw.w taken.
DoUnlockKeepsW(t, x) == rw' = [rw EXCEPT ![x].held = FALSE]

DoUnlock(t, x) == rw' = [rw EXCEPT ![x].w = 0, ![x].held = FALSE]

HoldsWrite(t, x) == rw[x].w = t /\ rw[x].held

HoldsRead(t, x) == t \in rw[x].readers

\* -------------------------------------------------------------- CopyOverTo

\* A type assertion that takes any target for a *User.
IsUserUnchecked(o) == TRUE

\* user, valid = other.(*User)
IsUser(o) == o.kind = "User"

\* Line 171-174: the type assertion; on failure the error is set and the
\* call returns at once.
Cast(t) ==
    /\ th[t].pc = "cast"
    /\ IF IsUser(th[t].other)
         THEN Goto(t, "rlock")
         ELSE Set(t, [th[t] EXCEPT !.pc = "done", !.err = ErrUnsupportedType])
    /\ UNCHANGED <<users, heap, rw, presence, calls, muts>>

\* Line 176: u.RLock()
RLock(t) ==
    /\ th[t].pc = "rlock"
    /\ CanRLock(th[t].self)
    /\ DoRLock(t, th[t].self)
    /\ Goto(t, "lock")
    /\ UNCHANGED <<users, heap, presence, calls, muts>>

\* Line 177: user.Lock(), first half
LockAnnounce(t) ==
    /\ th[t].pc = "lock"
    /\ CanLockAnnounce(th[t].other.addr)
    /\ DoLockAnnounce(t, th[t].other.addr)
    /\ Goto(t, "lockwait")
    /\ UNCHANGED <<users, heap, presence, calls, muts>>

\* Line 177: user.Lock(), second half
LockAcquire(t) ==
    /\ th[t].pc = "lockwait"
    /\ CanLockAcquire(th[t].other.addr)
    /\ DoLockAcquire(t, th[t].other.addr)
    /\ Set(t, [th[t] EXCEPT !.pc = "write", !.i = 1])
    /\ UNCHANGED <<users, heap, presence, calls, muts>>

\* The assignment turned around: u.f = user.f
AssignBack(src, dst, f) == users' = [users EXCEPT ![src][f] = users[dst][f]]

\* The assignment user.f = u.f
Assign(src, dst, f) == users' = [users EXCEPT ![dst][f] = users[src][f]]

\* Line 179-186: the scalar fields, one assignment per step.
WriteField(t) ==
    /\ th[t].pc = "write"
    /\ Assign(th[t].self, th[t].other.addr, CopyFields[th[t].i])
    /\ IF th[t].i < Len(CopyFields)
         THEN Set(t, [th[t] EXCEPT !.i = @ + 1])
         ELSE Goto(t, "avatar")
    /\ UNCHANGED <<heap, rw, presence, calls, muts>>

\* The Avatar copied as a reference: user.Avatar = u.Avatar
AvatarShare(src, dst) ==
    /\ users' = [users EXCEPT ![dst].Avatar = users[src].Avatar]
    /\ heap' = heap

\* Line 188-191: a set Avatar is copied into a new cell; a nil Avatar
\* leaves the target's Avatar as it was.
AvatarCopy(src, dst) ==
    IF users[src].Avatar # NilPtr
    THEN /\ heap' = Append(heap, heap[users[src].Avatar])
         /\ users' = [users EXCEPT ![dst].Avatar = Len(heap) + 1]
    ELSE UNCHANGED <<heap, users>>

CopyAvatar(t) ==
    /\ th[t].pc = "avatar"
    /\ AvatarCopy(th[t].self, th[t].other.addr)
    /\ Goto(t, "runlock")
    /\ UNCHANGED <<rw, presence, calls, muts>>

\* Line 193: u.RUnlock()
RUnlock(t) ==
    /\ th[t].pc = "runlock"
    /\ DoRUnlock(t, th[t].self)
    /\ Goto(t, "unlock")
    /\ UNCHANGED <<users, heap, presence, calls, muts>>

\* Line 194-196: user.Unlock() and the return, into DeepCopy when it is
\* DeepCopy that made the call.
Unlock(t) ==
    /\ th[t].pc = "unlock"
    /\ DoUnlock(t, th[t].other.addr)
    /\ Goto(t, IF th[t].op = "DeepCopy" THEN "dc_ret" ELSE "done")
    /\ UNCHANGED <<users, heap, presence, calls, muts>>

\* ---------------------------------------------------------------- DeepCopy

\* Line 162-163: copy = NewUser(), handed to u.CopyOverTo.
DeepCopyNew(t) ==
    /\ th[t].pc = "dc_new"
    /\ users' = Append(users, NewUser)
    /\ rw' = Append(rw, NewRWMutex)
    /\ Set(t, [th[t] EXCEPT !.pc = "cast", !.other = UserRef(Len(users) + 1)])
    /\ UNCHANGED <<heap, presence, calls, muts>>

\* Line 165: return copy
DeepCopyReturn(t) ==
    /\ th[t].pc = "dc_ret"
    /\ Set(t, [th[t] EXCEPT !.pc = "done", !.ret = <<th[t].other>>])
    /\ UNCHANGED <<users, heap, rw, presence, calls, muts>>
\* ------------------------------------------------- direct field assignment

\* The fields of User are exported: the caller that holds a User and the copy
\* DeepCopy returned for it assigns to a field of either, x.f = v, to the
\* Avatar pointer, or through it, *x.Avatar = v.
MutKinds == {CopyFields[k] : k \in 1..Len(CopyFields)} \cup {"Avatar", "*Avatar"}

NewValue(f, old) ==
    CASE f = "ID" -> 9
      [] f \in {"Verified", "MFAEnabled", "Bot"} -> ~old
      [] OTHER -> "zed"

\* No other goroutine is inside a call on user x.
Quiescent(t, x) ==
    \A s \in Threads \ {t} :
        th[s].pc \in {"idle", "done"} \/ (th[s].self # x /\ th[s].other # UserRef(x))

Mutate(t, x, k) ==
    /\ th[t].pc = "done"
    /\ th[t].op = "DeepCopy"
    /\ UserRef(x) \in {UserRef(th[t].self), th[t].ret[1]}
    /\ Quiescent(t, x)
    /\ muts' = muts + 1
    /\ CASE k = "*Avatar" ->
              /\ users[x].Avatar # NilPtr
              /\ heap' = [heap EXCEPT ![users[x].Avatar] = "zed.png"]
              /\ users' = users
         [] k = "Avatar" ->
              IF users[x].Avatar # NilPtr
              THEN users' = [users EXCEPT ![x].Avatar = NilPtr] /\ heap' = heap
              ELSE /\ heap' = Append(heap, "new.png")
                   /\ users' = [users EXCEPT ![x].Avatar = Len(heap) + 1]
         [] OTHER ->
              /\ users' = [users EXCEPT ![x][k] = NewValue(k, @)]
              /\ heap' = heap
    /\ UNCHANGED <<rw, presence, th, calls>>

\* --------------------------------------------------------------- accessors

\* Snowflake.String(): the identifier in decimal.
SnowflakeString(id) == ToString(id)

\* Snowflake.Empty(): the identifier is 0.
SnowflakeEmpty(id) == id = 0

\* The fields a method reads, in the order its expression evaluates them.
\* MarshalJSON reads ID for the test of line 129 and then every field for the
\* struct copy User(*u) of line 133.
ReadsOf(op) ==
    CASE op = "Mention" -> <<"ID">>
      [] op = "MentionNickname" -> <<"ID">>
      [] op = "String" -> <<"Username", "Discriminator", "ID">>
      [] op = "Partial" -> <<"Username", "Discriminator">>
      [] op = "Valid" -> <<"ID">>
      [] op = "MarshalJSON" -> <<"ID">> \o Fields

\* The struct tags of User: the JSON key of a field and whether it is
\* omitted when empty.
JSONKey(f) ==
    CASE f = "ID" -> "id"
      [] f = "Username" -> "username"
      [] f = "Discriminator" -> "discriminator"
      [] f = "Email" -> "email"
      [] f = "Avatar" -> "avatar"
      [] f = "Token" -> "token"
      [] f = "Verified" -> "verified"
      [] f = "MFAEnabled" -> "mfa_enabled"
      [] f = "Bot" -> "bot"

\* Every field tagged omitempty, avatar too.
OmitEmptyAll(f) == TRUE

OmitEmpty(f) == f # "Avatar"

\* encoding/json's empty value of a field's type: 0, "", false.
IsEmptyValue(f, v) == v = NewUser[f]

\* The JSON value of a field; a *string is null when nil and the string it
\* points to otherwise.
JSONValue(f, v) ==
    IF f = "Avatar"
    THEN IF v = NilPtr THEN [t |-> "null"] ELSE [t |-> "string", v |-> heap[v]]
    ELSE [t |-> "value", v |-> v]

\* json.Marshal of a User value s: the members of the object in field order.
JSONMarshal(s) ==
    LET kept == SelectSeq(Fields,
                          LAMBDA f : ~(OmitEmpty(f) /\ IsEmptyValue(f, s[f])))
    IN  [k \in 1..Len(kept) |-> <<JSONKey(kept[k]), JSONValue(kept[k], s[kept[k]])>>]

\* []byte("{}")
EmptyObject == <<>>

\* The User value that the struct copy of line 133 read: acc[1] is the ID
\* read at line 129, acc[2..] the fields in declaration order.
Snapshot(acc) ==
    [f \in {Fields[k] : k \in 1..Len(Fields)} |->
        acc[1 + CHOOSE k \in 1..Len(Fields) : Fields[k] = f]]

\* A Mention that returns the nickname form, and a String that puts the
\* discriminator first.
ResultSwapped(op, acc) ==
    CASE op = "Mention" -> "<@!" \o SnowflakeString(acc[1]) \o ">"
      [] op = "MentionNickname" -> "<@!" \o SnowflakeString(acc[1]) \o ">"
      [] op = "String" ->
            acc[2] \o "#" \o acc[1] \o "{" \o SnowflakeString(acc[3]) \o "}"

\* What a method returns from the values it read.
Result(op, acc) ==
    CASE op = "Mention" -> "<@" \o SnowflakeString(acc[1]) \o ">"
      [] op = "MentionNickname" -> "<@!" \o SnowflakeString(acc[1]) \o ">"
      [] op = "String" ->
            acc[1] \o "#" \o acc[2] \o "{" \o SnowflakeString(acc[3]) \o "}"
      [] op = "Partial" -> (acc[1] \o acc[2]) = ""
      [] op = "Valid" -> acc[1] > 0
      [] op = "MarshalJSON" -> JSONMarshal(Snapshot(acc))

\* A MarshalJSON without the test of line 129.
ReturnsEarlyNever(op, acc) == FALSE

\* MarshalJSON returns "{}" right after reading an empty ID (line 129-131).
ReturnsEarly(op, acc) ==
    op = "MarshalJSON" /\ Len(acc) = 1 /\ SnowflakeEmpty(acc[1])

\* Line 110-134, 205-207: one field of u is read, without any lock; after the
\* last one the method returns its result.
ReadField(t) ==
    /\ th[t].pc = "read"
    /\ LET op == th[t].op
           acc == Append(th[t].acc, users[th[t].self][ReadsOf(op)[th[t].i]])
       IN  IF ReturnsEarly(op, acc)
           THEN Set(t, [th[t] EXCEPT !.pc = "done", !.acc = acc,
                                     !.ret = <<EmptyObject>>])
           ELSE IF th[t].i < Len(ReadsOf(op))
           THEN Set(t, [th[t] EXCEPT !.i = @ + 1, !.acc = acc])
           ELSE Set(t, [th[t] EXCEPT !.pc = "done", !.acc = acc,
                                     !.ret = <<Result(op, acc)>>])
    /\ UNCHANGED <<users, heap, rw, presence, calls, muts>>

\* ----------------------------------------------------------------- session

\* What the session collaborator may answer to CreateDM: a channel, or an
\* error with no channel.
ChannelIDs == {7, 8}

SessionErrors == {"timeout", "forbidden"}

NoChannel == [nil |-> TRUE, ID |-> 0]

CreateDMAnswers ==
    {[channel |-> [nil |-> FALSE, ID |-> c], err |-> Nil] : c \in ChannelIDs}
    \cup {[channel |-> NoChannel, err |-> e] : e \in SessionErrors}

\* ... and to SendMsg: the sent message, or an error with no message.
SendMsgAnswers ==
    {[msg |-> "sent", err |-> Nil]}
    \cup {[msg |-> Nil, err |-> e] : e \in SessionErrors}

\* What SendMsg returns: channel, msg, err.
Returned(channel, msg, err) == [channel |-> channel, msg |-> msg, err |-> err]

\* Line 155-157: SendMsgString wraps its content in a Message and calls
\* SendMsg with it.
MessageOf(content) == [Content |-> content]

BuildMessage(t) ==
    /\ th[t].pc = "sms_build"
    /\ Set(t, [th[t] EXCEPT !.pc = "sm_createdm", !.msg = <<MessageOf(th[t].arg[1])>>])
    /\ UNCHANGED <<users, heap, rw, presence, calls, muts>>

\* A SendMsg that takes u.RLock() before it enters session.CreateDM.
CreateDMCallUnderRLock(t) ==
    /\ th[t].pc = "sm_createdm"
    /\ rw' = [rw EXCEPT ![th[t].self].readers = @ \cup {t}]
    /\ Set(t, [th[t] EXCEPT !.pc = "in_createdm",
                            !.log = Append(@, <<"CreateDM", users[th[t].self].ID>>)])
    /\ UNCHANGED <<users, heap, presence, calls, muts>>

\* Line 145: u.ID is read, without any lock, and session.CreateDM is entered.
CreateDMCall(t) ==
    /\ th[t].pc = "sm_createdm"
    /\ Set(t, [th[t] EXCEPT !.pc = "in_createdm",
                            !.log = Append(@, <<"CreateDM", users[th[t].self].ID>>)])
    /\ UNCHANGED <<users, heap, rw, presence, calls, muts>>

\* A SendMsg that goes on to send whatever CreateDM answered.
AfterCreateDMIgnoresError(a) == "sm_send"

\* Line 146-148: where SendMsg goes on after CreateDM answered a.
AfterCreateDM(a) == IF a.err # Nil THEN "done" ELSE "sm_send"

\* Line 145-148: CreateDM answers; on an error SendMsg returns what it got.
CreateDMReturn(t) ==
    /\ th[t].pc = "in_createdm"
    /\ \E a \in CreateDMAnswers :
          Set(t, [th[t] EXCEPT !.pc = AfterCreateDM(a),
                               !.answers = Append(@, a),
                               !.err = a.err,
                               !.ret = <<Returned(a.channel, Nil, a.err)>>])
    /\ UNCHANGED <<users, heap, rw, presence, calls, muts>>

\* The message parameter of SendMsg: the caller's, or the one SendMsgString
\* built.
MessageParam(t) ==
    IF th[t].op = "SendMsgString" THEN th[t].msg[1] ELSE th[t].arg[1]

\* Line 150: session.SendMsg(channel.ID, message) is entered.
SendMsgCall(t) ==
    /\ th[t].pc = "sm_send"
    /\ Set(t, [th[t] EXCEPT !.pc = "in_sendmsg",
                            !.log = Append(@, <<"SendMsg", th[t].ret[1].channel.ID,
                                                MessageParam(t)>>)])
    /\ UNCHANGED <<users, heap, rw, presence, calls, muts>>

\* Line 150-151: SendMsg answers; its results are returned as they are.
SendMsgReturn(t) ==
    /\ th[t].pc = "in_sendmsg"
    /\ \E a \in SendMsgAnswers :
          Set(t, [th[t] EXCEPT !.pc = "done",
                               !.answers = Append(@, a),
                               !.err = a.err,
                               !.ret = <<Returned(th[t].ret[1].channel, a.msg, a.err)>>])
    /\ UNCHANGED <<users, heap, rw, presence, calls, muts>>

\* A SaveToDiscord that reports success.
SaveToDiscordSucceeds(t) ==
    /\ th[t].pc = "save"
    /\ Set(t, [th[t] EXCEPT !.pc = "done", !.err = Nil])
    /\ UNCHANGED <<users, heap, rw, presence, calls, muts>>

\* Line 199-203: SaveToDiscord
SaveToDiscord(t) ==
    /\ th[t].pc = "save"
    /\ Set(t, [th[t] EXCEPT !.pc = "done", !.err = ErrNotImplemented])
    /\ UNCHANGED <<users, heap, rw, presence, calls, muts>>

\* Line 140-142: User.Clear has no statement.
Clear(t) ==
    /\ th[t].pc = "clear"
    /\ Goto(t, "done")
    /\ UNCHANGED <<users, heap, rw, presence, calls, muts>>

\* Line 233-235: UserPresence.Clear, p.Game = nil; UserPresence has no lock.
PresenceClear(t) ==
    /\ th[t].pc = "pclear"
    /\ presence' = [presence EXCEPT !.Game = Nil]
    /\ Goto(t, "done")
    /\ UNCHANGED <<users, heap, rw, calls, muts>>
\* ----------------------------------------------------------- ActivityParty

ErrIndexOutOfRange == "index out of range"

\* What an expression of type int evaluates to: a value, or a run-time panic.
Value(v) == [panic |-> FALSE, v |-> v]

\* size[i] of a Go slice (indexed from 0), which panics outside 0..len-1.
Index(size, i) ==
    IF i >= 0 /\ i < Len(size) THEN Value(size[i + 1]) ELSE [panic |-> TRUE, v |-> 0]

\* A Limit that returns Size[1] whatever the length.
LimitOfAnyLength(size) == Index(size, 1)

\* Line 41-47: Limit
Limit(size) == IF Len(size) # 2 THEN Value(0) ELSE Index(size, 1)

\* Line 50-56: NumberOfPeople
NumberOfPeople(size) == IF Len(size) # 1 THEN Value(0) ELSE Index(size, 0)

PartyOps == {"Limit", "NumberOfPeople"}

\* ap.Limit() or ap.NumberOfPeople() is called on the party ap.
CallParty(t, op, ap) == Begin(t, op, "party", 0, NoRef, <<ap>>)

\* Line 41-56: the method evaluates its result on ap.Size and returns it.
PartyReturn(t) ==
    /\ th[t].pc = "party"
    /\ LET size == th[t].arg[1].Size
           r == IF th[t].op = "Limit" THEN Limit(size) ELSE NumberOfPeople(size)
       IN  Set(t, [th[t] EXCEPT !.pc = "done", !.ret = <<r.v>>,
                                !.err = IF r.panic THEN ErrIndexOutOfRange ELSE Nil])
    /\ UNCHANGED <<users, heap, rw, presence, calls, muts>>

\* ---------------------------------------------------------- httd.Unmarshal

\* What a decoder, json.Unmarshal or a target's own UnmarshalJSON, may
\* return: nil or an error.
DecoderErrors == {Nil, "unexpected end of JSON input", "cannot unmarshal"}

\* A type assertion that never finds the method.
HasUnmarshalerNever(v) == FALSE

\* Line 9: j, has := v.(json.Unmarshaler), on the dynamic type of v.
HasUnmarshaler(v) == v.unmarshaler

\* The decoder Unmarshal hands data to.
DecoderFor(v) == IF HasUnmarshaler(v) THEN "UnmarshalJSON" ELSE "json.Unmarshal"

CallUnmarshal(t, data, v) == Begin(t, "Unmarshal", "um_assert", 0, NoRef, <<data, v>>)

\* Line 9-12: the type assertion, and the call of j.UnmarshalJSON(data) or
\* of json.Unmarshal(data, v).
UnmarshalDispatch(t) ==
    /\ th[t].pc = "um_assert"
    /\ Set(t, [th[t] EXCEPT !.pc = "in_decoder",
                            !.log = Append(@, <<DecoderFor(th[t].arg[2]), th[t].arg[1],
                                                th[t].arg[2]>>)])
    /\ UNCHANGED <<users, heap, rw, presence, calls, muts>>

\* Line 10, 12: the decoder returns and Unmarshal returns its result.
DecoderReturn(t) ==
    /\ th[t].pc = "in_decoder"
    /\ \E e \in DecoderErrors :
          Set(t, [th[t] EXCEPT !.pc = "done", !.answers = Append(@, e), !.err = e])
    /\ UNCHANGED <<users, heap, rw, presence, calls, muts>>

\* ---------------------------------------------------------- activity flags

\* x << k
RECURSIVE Shl(_, _)
Shl(x, k) == IF k = 0 THEN x ELSE Shl(2 * x, k - 1)

\* a | b and a & b on non-negative ints, bit by bit.
RECURSIVE BitOr(_, _)
BitOr(a, b) ==
    IF a = 0 THEN b
    ELSE IF b = 0 THEN a
    ELSE 2 * BitOr(a \div 2, b \div 2) + (IF a % 2 = 1 \/ b % 2 = 1 THEN 1 ELSE 0)

RECURSIVE BitAnd(_, _)
BitAnd(a, b) ==
    IF a = 0 \/ b = 0 THEN 0
    ELSE 2 * BitAnd(a \div 2, b \div 2) + (IF a % 2 = 1 /\ b % 2 = 1 THEN 1 ELSE 0)

\* Line 21-26
ActivityFlagInstance == Shl(1, 0)

ActivityFlagJoin == Shl(1, 1)

ActivityFlagSpectate == Shl(1, 2)

\* A join-request flag on the bit of spectate.
ActivityFlagJoinRequestOnBit2 == Shl(1, 2)

ActivityFlagJoinRequest == Shl(1, 3)

ActivityFlagSync == Shl(1, 4)

ActivityFlagPlay == Shl(1, 5)

FlagNames == {"Instance", "Join", "Spectate", "JoinRequest", "Sync", "Play"}

FlagValue(n) ==
    CASE n = "Instance" -> ActivityFlagInstance
      [] n = "Join" -> ActivityFlagJoin
      [] n = "Spectate" -> ActivityFlagSpectate
      [] n = "JoinRequest" -> ActivityFlagJoinRequest
      [] n = "Sync" -> ActivityFlagSync
      [] n = "Play" -> ActivityFlagPlay

\* The flags of S ORed together.
RECURSIVE OrAll(_)
OrAll(S) ==
    IF S = {} THEN 0
    ELSE LET n == CHOOSE x \in S : TRUE IN BitOr(FlagValue(n), OrAll(S \ {n}))

\* A caller is to build Activity.Flags from the flags S and to test it.
CallFlags(t, S) == Begin(t, "Flags", "flags_or", 0, NoRef, <<S>>)

\* Line 87: Activity.Flags, the activity flags ORed together.
CombineFlags(t) ==
    /\ th[t].pc = "flags_or"
    /\ Set(t, [th[t] EXCEPT !.pc = "flags_test", !.acc = <<OrAll(th[t].arg[1])>>])
    /\ UNCHANGED <<users, heap, rw, presence, calls, muts>>

\* The test of one flag: Flags & f != 0
TestFlag(t) ==
    /\ th[t].pc = "flags_test"
    /\ \E n \in FlagNames :
          Set(t, [th[t] EXCEPT !.pc = "done",
                               !.ret = <<n, BitAnd(th[t].acc[1], FlagValue(n)) # 0>>])
    /\ UNCHANGED <<users, heap, rw, presence, calls, muts>>

\* ------------------------------------------------------------------- calls

Accessors == {"Mention", "MentionNickname", "String", "Partial", "Valid", "MarshalJSON"}

CallCopyOverTo(t, u, o) == Begin(t, "CopyOverTo", "cast", u, o, <<>>)

CallDeepCopy(t, u) == Begin(t, "DeepCopy", "dc_new", u, NoRef, <<>>)

CallAccessor(t, op, u) == Begin(t, op, "read", u, NoRef, <<>>)

\* SendMsg is handed the message itself.
CallSendMsg(t, u, m) == Begin(t, "SendMsg", "sm_createdm", u, NoRef, <<m>>)

CallSendMsgString(t, u, content) ==
    Begin(t, "SendMsgString", "sms_build", u, NoRef, <<content>>)

CallSaveToDiscord(t, u) == Begin(t, "SaveToDiscord", "save", u, NoRef, <<>>)

CallClear(t, u) == Begin(t, "Clear", "clear", u, NoRef, <<>>)

CallPresenceClear(t) == Begin(t, "UserPresence.Clear", "pclear", 0, NoRef, <<>>)

\* The steps inside CopyOverTo and DeepCopy.
CopyStep(t) ==
    \/ Cast(t)
    \/ RLock(t)
    \/ LockAnnounce(t)
    \/ LockAcquire(t)
    \/ WriteField(t)
    \/ CopyAvatar(t)
    \/ RUnlock(t)
    \/ Unlock(t)

\* The steps inside SendMsg and SendMsgString.
SendStep(t) ==
    \/ BuildMessage(t)
    \/ CreateDMCall(t)
    \/ CreateDMReturn(t)
    \/ SendMsgCall(t)
    \/ SendMsgReturn(t)

\* -------------------------------------------------------------------- Init

\* Users as the cache holds them after hydration from JSON; avatar is the
\* optional string the Avatar pointer refers to.
Ann ==
    [ID |-> 1, Username |-> "Ann", Discriminator |-> "0001",
     Email |-> "ann@x", avatar |-> <<"a.png">>, Token |-> "tok",
     Verified |-> TRUE, MFAEnabled |-> FALSE, Bot |-> FALSE]

Bob ==
    [ID |-> 2, Username |-> "Bob", Discriminator |-> "0002",
     Email |-> "", avatar |-> <<>>, Token |-> "",
     Verified |-> FALSE, MFAEnabled |-> TRUE, Bot |-> TRUE]

\* The User object of a hydrated user whose avatar cell, if any, is at ptr.
Hydrated(p, ptr) ==
    [f \in {Fields[k] : k \in 1..Len(Fields)} |->
        IF f = "Avatar" THEN (IF p.avatar = <<>> THEN NilPtr ELSE ptr) ELSE p[f]]

\* The state in which the two cache entries hold p and q.
InitWith(p, q) ==
    /\ heap = p.avatar \o q.avatar
    /\ users = <<Hydrated(p, Len(p.avatar)), Hydrated(q, Len(p.avatar) + Len(q.avatar))>>
    /\ rw = <<NewRWMutex, NewRWMutex>>
    /\ presence = InitPresence
    /\ th = [t \in Threads |-> Idle]
    /\ calls = 0
    /\ muts = 0

Init == InitWith(Ann, Bob)

Targets == {UserRef(a) : a \in Shared} \cup {PresenceRef}

\* Any caller may call any method on the shared users.
CallAny(t) ==
    \/ \E u \in Shared, o \in Targets : CallCopyOverTo(t, u, o)
    \/ \E u \in Shared : CallDeepCopy(t, u)
    \/ \E u \in Shared, op \in Accessors : CallAccessor(t, op, u)
    \/ \E u \in Shared : CallSendMsg(t, u, MessageOf("hello"))
    \/ \E u \in Shared : CallSendMsgString(t, u, "hi")
    \/ \E u \in Shared : CallSaveToDiscord(t, u)
    \/ \E u \in Shared : CallClear(t, u)
    \/ CallPresenceClear(t)

Next ==
    \E t \in Threads :
        \/ calls < MaxCalls /\ CallAny(t)
        \/ CopyStep(t)
        \/ DeepCopyNew(t)
        \/ DeepCopyReturn(t)
        \/ ReadField(t)
        \/ SendStep(t)
        \/ SaveToDiscord(t)
        \/ Clear(t)
        \/ PresenceClear(t)
        \/ Resume(t)

Spec == Init /\ [][Next]_vars
\* ----------------------------------------------------------------- C1

InCopyOverTo(t) == th[t].op = "CopyOverTo" /\ th[t].other.kind = "User"

\* Goroutine t is blocked in a lock operation whose lock goroutine s holds.
WaitsFor(t, s) ==
    \/ th[t].pc = "rlock" /\ rw[th[t].self].w = s
    \/ th[t].pc = "lock" /\ rw[th[t].other.addr].w = s
    \/ th[t].pc = "lockwait" /\ s \in rw[th[t].other.addr].readers

\* C1: while one goroutine runs A.CopyOverTo(B) and another B.CopyOverTo(A),
\* for two distinct Users A and B, no state is reached in which each of the
\* two waits for a lock that the other holds.
C1_NoCrossCopyDeadlock ==
    \A t, s \in Threads :
        (/\ t # s
         /\ InCopyOverTo(t) /\ InCopyOverTo(s)
         /\ th[t].self # th[t].other.addr
         /\ th[s].self = th[t].other.addr
         /\ th[s].other.addr = th[t].self)
        => ~(WaitsFor(t, s) /\ WaitsFor(s, t))

\* ----------------------------------------------------------------- C2

\* The scalar fields of user y equal those of user x.
SameScalars(x, y) ==
    \A k \in 1..Len(CopyFields) : users[y][CopyFields[k]] = users[x][CopyFields[k]]

\* The Avatar of y is a copy of the Avatar of x: nil when that is nil, and
\* otherwise another cell that holds the same string.
AvatarCopied(x, y) ==
    IF users[x].Avatar = NilPtr
    THEN users[y].Avatar = NilPtr
    ELSE /\ users[y].Avatar # NilPtr
         /\ users[y].Avatar # users[x].Avatar
         /\ heap[users[y].Avatar] = heap[users[x].Avatar]

\* CopyOverTo between two Users has made its last assignment and holds both
\* locks still (line 193 is next).
Transferred(t) ==
    /\ th[t].op = "CopyOverTo"
    /\ th[t].other.kind = "User"
    /\ th[t].pc = "runlock"

\* C2: when source.CopyOverTo(target) has transferred the fields, the eight
\* scalar fields of the target equal the source's and the target's Avatar is
\* unset when the source's is unset and otherwise a cell of its own holding
\* the same value, whatever the target held before.
C2_CopyTransfersEveryField ==
    \A t \in Threads :
        Transferred(t) =>
            /\ SameScalars(th[t].self, th[t].other.addr)
            /\ AvatarCopied(th[t].self, th[t].other.addr)

\* ----------------------------------------------------------------- C3

\* One caller: DeepCopy of a shared user, then the caller's assignments to
\* the fields of the original and of the copy, then the next DeepCopy.
NextC3 ==
    \E t \in {1} :
        \/ calls < MaxCalls /\ \E u \in Shared : CallDeepCopy(t, u)
        \/ DeepCopyNew(t)
        \/ CopyStep(t)
        \/ DeepCopyReturn(t)
        \/ muts < MaxMutations /\ \E x \in Addrs, k \in MutKinds : Mutate(t, x, k)
        \/ Resume(t)

SpecC3 == Init /\ [][NextC3]_vars

\* What a caller sees of user x: its fields and the string its Avatar refers to.
UserView(x) ==
    <<users[x], IF users[x].Avatar = NilPtr THEN <<>> ELSE <<heap[users[x].Avatar]>> >>

C3_EqualAtReturn ==
    \A t \in Threads :
        (th[t].op = "DeepCopy" /\ th[t].pc = "dc_ret") =>
            /\ SameScalars(th[t].self, th[t].other.addr)
            /\ AvatarCopied(th[t].self, th[t].other.addr)

C3_Independent ==
    \A t \in Threads, x \in Addrs, k \in MutKinds :
        Mutate(t, x, k) => \A y \in Addrs \ {x} : UserView(y)' = UserView(y)

\* C3: when DeepCopy returns, the copy's scalar fields equal the original's
\* and its Avatar is nil like the original's or another cell holding the same
\* string; afterwards an assignment to any field of the copy, or through its
\* Avatar pointer, changes nothing of the original, and an assignment to the
\* original changes nothing of the copy.
C3_DeepCopyIsTrueCopy == []C3_EqualAtReturn /\ [][C3_Independent]_vars

\* A caller has written through the Avatar pointer of the copy of a User
\* whose own Avatar still holds what it held.
C3_Witness ==
    \E t \in Threads :
        /\ th[t].op = "DeepCopy" /\ th[t].pc = "done"
        /\ users[th[t].self].Avatar # NilPtr
        /\ users[th[t].ret[1].addr].Avatar # NilPtr
        /\ heap[users[th[t].ret[1].addr].Avatar] = "zed.png"
        /\ heap[users[th[t].self].Avatar] = "a.png"

\* ----------------------------------------------------------------- C4

\* Goroutine t is in CopyOverTo with a target that is not a *User.
InMismatchedCopy(t) ==
    /\ th[t].op = "CopyOverTo"
    /\ th[t].other.kind # "User"
    /\ th[t].pc # "idle"

HoldsNoLock(t) ==
    \A x \in Addrs : t \notin rw[x].readers /\ rw[x].w # t

C4_NoLockAndError ==
    \A t \in Threads :
        InMismatchedCopy(t) =>
            /\ th[t].pc \in {"cast", "done"}
            /\ HoldsNoLock(t)
            /\ th[t].pc = "done" => th[t].err = ErrUnsupportedType

C4_Frame ==
    \A t \in Threads :
        (InMismatchedCopy(t) /\ th'[t].pc # th[t].pc) =>
            /\ users' = users
            /\ heap' = heap
            /\ presence' = presence
            /\ rw' = rw

\* C4: CopyOverTo into a target that is not a User returns the UnsupportedType
\* error, takes no lock at any point of the call, and none of its steps
\* changes a field of the target, of the source or of any other object.
C4_TypeMismatchFails == []C4_NoLockAndError /\ [][C4_Frame]_vars

\* A mismatched CopyOverTo has returned its error.
C4_Witness ==
    \E t \in Threads :
        /\ InMismatchedCopy(t)
        /\ th[t].pc = "done"
        /\ th[t].err = ErrUnsupportedType
        /\ th[t].other = PresenceRef

\* ----------------------------------------------------------------- C5

\* The users of which the next step of goroutine t reads a field.
ReadsNext(t) ==
    IF th[t].pc \in {"read", "sm_createdm", "write", "avatar"}
    THEN {th[t].self}
    ELSE {}

\* The users of which the next step of goroutine t writes a field.
WritesNext(t) ==
    IF th[t].pc \in {"write", "avatar"} THEN {th[t].other.addr} ELSE {}

\* UserPresence embeds no lock, so the write of UserPresence.Clear holds none.
PresenceWriteNext(t) == th[t].pc = "pclear"

\* Goroutine t is between the first and the last field write of a copy
\* into user x.
MidCopyInto(t, x) ==
    /\ th[t].op \in {"CopyOverTo", "DeepCopy"}
    /\ th[t].other = UserRef(x)
    /\ \/ th[t].pc = "write" /\ th[t].i > 1
       \/ th[t].pc = "avatar"

\* C5: a goroutine about to read a field of an entity holds that entity's
\* lock, one about to write a field holds it in write mode, and String() does
\* not run on a User while a copy into that User is between its first and
\* its last field write.
C5_LockDiscipline ==
    \A t \in Threads :
        /\ \A x \in ReadsNext(t) : HoldsRead(t, x) \/ HoldsWrite(t, x)
        /\ \A x \in WritesNext(t) : HoldsWrite(t, x)
        /\ ~PresenceWriteNext(t)
        /\ \A s \in Threads :
              ~(/\ th[t].op = "String" /\ th[t].pc = "read"
                /\ MidCopyInto(s, th[t].self))

\* ----------------------------------------------------------------- C6

\* The scenario: goroutine 1 calls A.CopyOverTo(B) again and again, for the
\* cache entries A = 1 and B = 2, while goroutine 2 calls the accessors of A.
NextC6 ==
    \/ calls < MaxRepeat /\ CallCopyOverTo(1, 1, UserRef(2))
    \/ calls < MaxRepeat /\ \E op \in Accessors : CallAccessor(2, op, 1)
    \/ CopyStep(1)
    \/ ReadField(2)
    \/ \E t \in Threads : Resume(t)

\* The Go scheduler runs every goroutine that can take a step.
SpecC6 ==
    /\ Init
    /\ [][NextC6]_vars
    /\ WF_vars(CopyStep(1))
    /\ WF_vars(ReadField(2))

\* While an accessor of A is between its call and its return, no step
\* changes a field of A or the string its Avatar refers to.
C6_NoWriteUnderRead ==
    (\E t \in Threads :
        th[t].op \in Accessors /\ th[t].pc = "read" /\ th[t].self = 1)
    => UserView(1)' = UserView(1)

C6_EveryCallReturns ==
    \A t \in Threads : (th[t].pc \notin {"idle", "done"}) ~> (th[t].pc = "done")

\* C6: while one goroutine repeats A.CopyOverTo(B) and another reads A
\* through its accessors, A does not change under a running accessor, and
\* every CopyOverTo call and every accessor call returns.
C6_CopyAndReadersOfSource == [][C6_NoWriteUnderRead]_vars /\ C6_EveryCallReturns

\* A repeated copy is in the middle of its field writes while String() on A
\* has read one field and not yet the next.
C6_Witness ==
    /\ th[1].op = "CopyOverTo" /\ th[1].pc = "write" /\ th[1].i > 1
    /\ th[2].op = "String" /\ th[2].pc = "read" /\ th[2].i = 2
    /\ calls >= 3

\* ----------------------------------------------------------------- C7

\* C7 as claimed: a User's ID, once non-zero, is the same in every later
\* state.
C7_IDNeverChanges ==
    [][\A x \in Addrs : users[x].ID # 0 => users'[x].ID = users[x].ID]_vars

\* Goroutine t is at the assignment user.ID = u.ID (line 179) of a
\* CopyOverTo whose target is user x.
AssignsIDOf(t, x) ==
    /\ th[t].op = "CopyOverTo"
    /\ th[t].other = UserRef(x)
    /\ th[t].pc = "write"
    /\ CopyFields[th[t].i] = "ID"

\* C7 as amended: a non-zero ID of a User changes only by the assignment
\* user.ID = u.ID of a CopyOverTo into that User, which sets it to the
\* source's ID; no step of any other operation changes it.
C7_IDChangesOnlyAsCopyTarget ==
    [][\A x \in Addrs :
          (users[x].ID # 0 /\ users'[x].ID # users[x].ID) =>
              \E t \in Threads :
                  /\ AssignsIDOf(t, x)
                  /\ th'[t].pc # th[t].pc \/ th'[t].i # th[t].i
                  /\ users'[x].ID = users[th[t].self].ID]_vars

\* A CopyOverTo has replaced the non-zero ID of the second cache entry by
\* the ID of the first.
C7_Witness ==
    \E t \in Threads :
        /\ th[t].op = "CopyOverTo"
        /\ th[t].self = 1 /\ th[t].other = UserRef(2)
        /\ th[t].pc = "write" /\ th[t].i = 2
        /\ users[2].ID = Ann.ID
        /\ Bob.ID # 0 /\ Bob.ID # Ann.ID
\* ------------------------------------------------------------ C8 and C9

\* The Users MarshalJSON is applied to: every combination of an empty and a
\* set value of each field, the Avatar unset, set to "" or set to a value.
MarshalInputs ==
    [ID : {0, 1, 2}, Username : {"", "Ann"}, Discriminator : {"", "0001"},
     Email : {"", "ann@x"}, avatar : {<<>>, <<"">>, <<"a.png">>},
     Token : {"", "tok"}, Verified : BOOLEAN, MFAEnabled : BOOLEAN,
     Bot : BOOLEAN]

InitMarshal == \E p \in MarshalInputs : InitWith(p, Bob)

NextMarshal ==
    \/ calls < MaxRepeat /\ CallAccessor(1, "MarshalJSON", 1)
    \/ ReadField(1)
    \/ Resume(1)

SpecMarshal == InitMarshal /\ [][NextMarshal]_vars

\* MarshalJSON of goroutine t has returned.
Marshalled(t) == th[t].op = "MarshalJSON" /\ th[t].pc = "done"

C8_EmptyObject ==
    \A t \in Threads :
        (Marshalled(t) /\ users[th[t].self].ID = 0) =>
            /\ Len(th[t].ret[1]) = 0
            /\ th[t].err = Nil

C8_Frame ==
    \A t \in Threads :
        (th[t].op = "MarshalJSON" /\ th'[t].pc # th[t].pc) =>
            /\ users' = users
            /\ heap' = heap

\* C8: for a User whose ID is 0, MarshalJSON returns the empty object "{}"
\* and no error, whatever the other fields hold, and no step of MarshalJSON
\* changes the User.
C8_EmptyIDMarshalsEmpty == []C8_EmptyObject /\ [][C8_Frame]_vars

\* MarshalJSON returned "{}" for a User without ID whose other fields are set.
C8_Witness ==
    \E t \in Threads :
        /\ Marshalled(t)
        /\ users[th[t].self].ID = 0
        /\ users[th[t].self].Username = "Ann"
        /\ users[th[t].self].Avatar # NilPtr
        /\ users[th[t].self].Bot
        /\ Len(th[t].ret[1]) = 0

\* The JSON object out has a member named key.
Has(out, key) == \E j \in 1..Len(out) : out[j][1] = key

ValueOf(out, key) == out[CHOOSE j \in 1..Len(out) : out[j][1] = key][2]

\* C9: for a User whose ID is greater than 0, the object MarshalJSON returns
\* has the member of each of username, discriminator, email, token, verified,
\* mfa_enabled and bot exactly when the field is not at its zero value, and
\* always has id and avatar, avatar being null exactly when Avatar is unset.
C9_OmitsExactlyTheZeroFields ==
    \A t \in Threads :
        (Marshalled(t) /\ users[th[t].self].ID > 0) =>
            LET out == th[t].ret[1]
                u == users[th[t].self]
            IN  /\ Has(out, "id")
                /\ Has(out, "avatar")
                /\ (ValueOf(out, "avatar").t = "null") <=> (u.Avatar = NilPtr)
                /\ Has(out, "username") <=> (u.Username # "")
                /\ Has(out, "discriminator") <=> (u.Discriminator # "")
                /\ Has(out, "email") <=> (u.Email # "")
                /\ Has(out, "token") <=> (u.Token # "")
                /\ Has(out, "verified") <=> u.Verified
                /\ Has(out, "mfa_enabled") <=> u.MFAEnabled
                /\ Has(out, "bot") <=> u.Bot
                /\ Len(out) <= Len(Fields)

\* MarshalJSON returned an object without username and with email and a
\* null avatar for a User with an ID, no Username, an Email and no Avatar.
C9_Witness ==
    \E t \in Threads :
        /\ Marshalled(t)
        /\ users[th[t].self].ID > 0
        /\ users[th[t].self].Username = ""
        /\ users[th[t].self].Email # ""
        /\ users[th[t].self].Avatar = NilPtr
        /\ ~Has(th[t].ret[1], "username")
        /\ Has(th[t].ret[1], "email")
        /\ ValueOf(th[t].ret[1], "avatar").t = "null"

\* ----------------------------------------------------------------- C10

\* Callers that only call SendMsg and SendMsgString, on either cache entry.
NextSend ==
    \E t \in Threads :
        \/ calls < MaxRepeat /\ \E u \in Shared : CallSendMsg(t, u, MessageOf("hello"))
        \/ calls < MaxRepeat /\ \E u \in Shared : CallSendMsgString(t, u, "hi")
        \/ SendStep(t)
        \/ Resume(t)

SpecSend == Init /\ [][NextSend]_vars

\* The message a call is to send: the one given to SendMsg, or one whose
\* content is the string given to SendMsgString.
GivenMessage(r) ==
    IF r.op = "SendMsgString" THEN [Content |-> r.arg[1]] ELSE r.arg[1]

\* C10: SendMsg and SendMsgString call CreateDM once, first, with the user's
\* ID; after an error of CreateDM they call nothing more and return that
\* error; otherwise they call the session's SendMsg once, with the ID of the
\* channel CreateDM answered and the given message, and return its message
\* and its error as they are.
C10_DispatchOrderAndErrors ==
    \A t \in Threads :
        LET r == th[t] IN
        r.op \in {"SendMsg", "SendMsgString"} =>
            /\ Len(r.log) <= 2
            /\ Len(r.answers) <= Len(r.log)
            /\ Len(r.log) >= 1 => r.log[1] = <<"CreateDM", users[r.self].ID>>
            /\ Len(r.log) = 2 =>
                  /\ r.answers[1].err = Nil
                  /\ r.log[2] = <<"SendMsg", r.answers[1].channel.ID, GivenMessage(r)>>
            /\ r.pc = "done" =>
                  /\ Len(r.answers) = Len(r.log)
                  /\ r.ret[1].channel = r.answers[1].channel
                  /\ IF r.answers[1].err # Nil
                     THEN /\ Len(r.log) = 1
                          /\ r.ret[1].err = r.answers[1].err
                          /\ r.ret[1].msg = Nil
                     ELSE /\ Len(r.log) = 2
                          /\ r.ret[1].err = r.answers[2].err
                          /\ r.ret[1].msg = r.answers[2].msg

\* One call has returned the error of CreateDM without calling SendMsg, and
\* a SendMsgString has returned the error of the session's SendMsg.
C10_Witness ==
    \E t, s \in Threads :
        /\ th[t].op = "SendMsg" /\ th[t].pc = "done"
        /\ Len(th[t].log) = 1 /\ th[t].ret[1].err = "forbidden"
        /\ th[s].op = "SendMsgString" /\ th[s].pc = "done"
        /\ Len(th[s].log) = 2 /\ th[s].ret[1].err = "timeout"
        /\ th[s].log[2][3].Content = "hi"

\* ----------------------------------------------------------------- C11

\* Goroutine 1 sends messages to the user A = 1 while goroutine 2 copies from
\* A into B = 2 and from B into A; the session may leave a call pending for
\* as long as it likes, so only the copying goroutine is scheduled fairly.
NextC11 ==
    \/ calls < MaxRepeat /\ CallSendMsg(1, 1, MessageOf("hello"))
    \/ calls < MaxRepeat /\ CallSendMsgString(1, 1, "hi")
    \/ calls < MaxRepeat /\ CallCopyOverTo(2, 1, UserRef(2))
    \/ calls < MaxRepeat /\ CallCopyOverTo(2, 2, UserRef(1))
    \/ SendStep(1)
    \/ CopyStep(2)
    \/ \E t \in Threads : Resume(t)

SpecC11 == Init /\ [][NextC11]_vars /\ WF_vars(CopyStep(2))

\* Goroutine t is inside session.CreateDM or session.SendMsg.
InSessionCall(t) == th[t].pc \in {"in_createdm", "in_sendmsg"}

C11_NoLockInSessionCall ==
    \A t \in Threads :
        InSessionCall(t) =>
            /\ t \notin rw[th[t].self].readers
            /\ rw[th[t].self].w # t
            /\ \A s \in Threads \ {t} : ~WaitsFor(s, t)

C11_CopyReturns == (th[2].pc \notin {"idle", "done"}) ~> (th[2].pc = "done")

\* C11: while SendMsg or SendMsgString of a User is inside session.CreateDM
\* or session.SendMsg, the calling goroutine holds neither the read lock nor
\* the write lock of that User and no other goroutine waits for a lock it
\* holds; a CopyOverTo from or into that User returns even when the session
\* call stays pending for ever.
C11_NoLockAcrossSessionCall == []C11_NoLockInSessionCall /\ C11_CopyReturns

\* A copy into A and then a copy from A have returned while the session's
\* SendMsg for A is still pending.
C11_Witness ==
    /\ th[1].pc = "in_sendmsg" /\ th[1].self = 1
    /\ th[2].pc = "done" /\ th[2].op = "CopyOverTo"
    /\ th[2].self = 1 /\ th[2].other = UserRef(2)
    /\ users[1].ID = Bob.ID /\ users[2].ID = Bob.ID
    /\ calls = 3

\* ----------------------------------------------------------------- C12

\* Callers that only call SaveToDiscord, on a User in any state and on the
\* other cache entry.
NextSave ==
    \E t \in Threads :
        \/ calls < MaxRepeat /\ \E u \in Shared : CallSaveToDiscord(t, u)
        \/ SaveToDiscord(t)
        \/ Resume(t)

SpecSave == InitMarshal /\ [][NextSave]_vars

C12_NotImplemented ==
    \A t \in Threads :
        th[t].op = "SaveToDiscord" =>
            /\ th[t].log = <<>>
            /\ th[t].answers = <<>>
            /\ th[t].pc = "done" => th[t].err = ErrNotImplemented

C12_Frame ==
    \A t \in Threads :
        (th[t].op = "SaveToDiscord" /\ th'[t].pc # th[t].pc) =>
            /\ users' = users
            /\ heap' = heap
            /\ rw' = rw

\* C12: SaveToDiscord returns the "not implemented" error whatever the User
\* holds, calls neither CreateDM nor SendMsg of the session, and none of its
\* steps changes a field of any User.
C12_SaveToDiscordFails == []C12_NotImplemented /\ [][C12_Frame]_vars

\* SaveToDiscord has returned its error for a hydrated User and, in another
\* goroutine, for the second cache entry.
C12_Witness ==
    \E t, s \in Threads :
        /\ th[t].op = "SaveToDiscord" /\ th[t].pc = "done"
        /\ th[t].self = 1 /\ users[1].ID = 2 /\ users[1].Token = "tok"
        /\ th[t].err = ErrNotImplemented
        /\ th[s].op = "SaveToDiscord" /\ th[s].pc = "done" /\ th[s].self = 2
        /\ calls = MaxRepeat

\* ----------------------------------------------------------------- C13

\* The Users the derived strings are taken of: with and without ID, Username
\* and Discriminator.
PresentationInputs ==
    {[Ann EXCEPT !.ID = id, !.Username = n, !.Discriminator = d] :
        id \in {0, 7, 123}, n \in {"", "Ann"}, d \in {"", "0001"}}

InitPresentation == \E p \in PresentationInputs : InitWith(p, Bob)

Presentations == {"Mention", "MentionNickname", "String"}

\* Callers that only take derived strings, of either cache entry; no call
\* in this scenario writes a User.
NextPresentation ==
    \E t \in Threads :
        \/ calls < MaxRepeat /\ \E u \in Shared, op \in Presentations : CallAccessor(t, op, u)
        \/ ReadField(t)
        \/ Resume(t)

SpecPresentation == InitPresentation /\ [][NextPresentation]_vars

\* Goroutine t has returned from op.
ReturnedFrom(t, op) == th[t].op = op /\ th[t].pc = "done"

C13_Strings ==
    \A t \in Threads :
        LET u == users[th[t].self]
            out == th[t].ret[1]
        IN  /\ ReturnedFrom(t, "Mention") =>
                  /\ out = "<@" \o SnowflakeString(u.ID) \o ">"
                  /\ u.ID = 123 => out = "<@123>"
                  /\ th[t].err = Nil
            /\ ReturnedFrom(t, "MentionNickname") =>
                  /\ out = "<@!" \o SnowflakeString(u.ID) \o ">"
                  /\ u.ID = 123 => out = "<@!123>"
                  /\ th[t].err = Nil
            /\ ReturnedFrom(t, "String") =>
                  /\ out = u.Username \o "#" \o u.Discriminator
                              \o "{" \o SnowflakeString(u.ID) \o "}"
                  /\ (u.ID = 123 /\ u.Username = "Ann" /\ u.Discriminator = "0001")
                        => out = "Ann#0001{123}"
                  /\ th[t].err = Nil

C13_Frame ==
    \A t \in Threads :
        (th[t].op \in Presentations /\ (th'[t].pc # th[t].pc \/ th'[t].i # th[t].i)) =>
            /\ users' = users
            /\ heap' = heap
            /\ rw' = rw

\* C13: called on a User that no other call writes meanwhile, Mention
\* returns "<@id>", MentionNickname "<@!id>" and String
\* "username#discriminator{id}" of the User's fields, with no error ("<@123>"
\* and "Ann#0001{123}" for ID 123, "Ann", "0001"), and none of their steps
\* changes a field of any User.
C13_PresentationIsPure == []C13_Strings /\ [][C13_Frame]_vars

\* String() and Mention() have returned for the User 123, "Ann", "0001".
C13_Witness ==
    \E t, s \in Threads :
        /\ ReturnedFrom(t, "String") /\ th[t].self = 1
        /\ th[t].ret[1] = "Ann#0001{123}"
        /\ ReturnedFrom(s, "Mention") /\ th[s].self = 1
        /\ th[s].ret[1] = "<@123>"

\* ----------------------------------------------------------------- C14

\* The longest Size list of a party.
MaxSize == 3

\* The parties: every Size list of up to MaxSize entries.
Parties ==
    {[ID |-> "party", Size |-> size] :
        size \in UNION {[1..n -> {0, 2, 5}] : n \in 0..MaxSize}}

\* One caller that takes Limit() and NumberOfPeople() of any party.
NextParty ==
    \E t \in {1} :
        \/ calls < MaxRepeat /\ \E op \in PartyOps, ap \in Parties : CallParty(t, op, ap)
        \/ PartyReturn(t)
        \/ Resume(t)

SpecParty == Init /\ [][NextParty]_vars

C14_Values ==
    \A t \in Threads :
        (th[t].op \in PartyOps /\ th[t].pc = "done") =>
            LET size == th[t].arg[1].Size IN
            /\ th[t].err = Nil
            /\ th[t].op = "Limit" =>
                  th[t].ret[1] = IF Len(size) = 2 THEN size[2] ELSE 0
            /\ th[t].op = "NumberOfPeople" =>
                  th[t].ret[1] = IF Len(size) = 1 THEN size[1] ELSE 0

C14_Frame ==
    \A t \in Threads :
        (th[t].pc = "party" /\ th'[t].pc # "party") => th'[t].arg = th[t].arg

DecodeTargets ==
    {[type |-> "*User", unmarshaler |-> FALSE],
     [type |-> "*Custom", unmarshaler |-> TRUE],
     [type |-> "nil", unmarshaler |-> FALSE]}

DecodeData == {"{}", "{id:1}", "{"}

NextUnmarshal ==
    \E t \in Threads :
        \/ calls < MaxRepeat /\ \E data \in DecodeData, v \in DecodeTargets : CallUnmarshal(t, data, v)
        \/ UnmarshalDispatch(t)
        \/ DecoderReturn(t)
        \/ Resume(t)

SpecUnmarshal == Init /\ [][NextUnmarshal]_vars

\* C15: a call of httd.Unmarshal(data, v) runs one decoder, once: the
\* UnmarshalJSON of v, with data, when the type of v has that method, and
\* json.Unmarshal, with data and v, when it has not; what the call returns is
\* the error, or nil, that this decoder returned.
C15_OneDecoder ==
    \A t \in Threads :
        th[t].op = "Unmarshal" =>
            /\ Len(th[t].log) <= 1
            /\ th[t].pc = "um_assert" => Len(th[t].log) = 0
            /\ Len(th[t].log) = 1 =>
                  /\ th[t].log[1][1] =
                        IF th[t].arg[2].unmarshaler THEN "UnmarshalJSON" ELSE "json.Unmarshal"
                  /\ th[t].log[1][2] = th[t].arg[1]
                  /\ th[t].log[1][3] = th[t].arg[2]
            /\ th[t].pc = "done" =>
                  /\ Len(th[t].log) = 1
                  /\ Len(th[t].answers) = 1
                  /\ th[t].err = th[t].answers[1]

\* One call has returned the error of a target's own UnmarshalJSON and
\* another nil from json.Unmarshal.
C15_Witness ==
    \E t, s \in Threads :
        /\ th[t].op = "Unmarshal" /\ th[t].pc = "done"
        /\ th[t].arg[2].type = "*Custom"
        /\ th[t].log[1][1] = "UnmarshalJSON"
        /\ th[t].err = "cannot unmarshal"
        /\ th[s].op = "Unmarshal" /\ th[s].pc = "done"
        /\ th[s].arg[2].type = "*User"
        /\ th[s].log[1][1] = "json.Unmarshal"
        /\ th[s].err = Nil

\* ----------------------------------------------------------------- C16

\* One caller that combines any subset of the six flags and tests a flag.
NextFlags ==
    \E t \in {1} :
        \/ calls < MaxRepeat /\ \E S \in SUBSET FlagNames : CallFlags(t, S)
        \/ CombineFlags(t)
        \/ TestFlag(t)
        \/ Resume(t)

SpecFlags == Init /\ [][NextFlags]_vars

\* C16: the six activity flags are 1, 2, 4, 8, 16 and 32; the OR of any
\* subset S of them, ANDed with a flag, is non-zero exactly when that flag is
\* in S; the OR of join and spectate is 6 and the test of play against it is
\* false.
C16_FlagsAreSingleBits ==
    /\ <<ActivityFlagInstance, ActivityFlagJoin, ActivityFlagSpectate,
          ActivityFlagJoinRequest, ActivityFlagSync, ActivityFlagPlay>>
            = <<1, 2, 4, 8, 16, 32>>
    /\ \A t \in Threads :
          (th[t].op = "Flags" /\ th[t].pc \in {"flags_test", "done"}) =>
              LET S == th[t].arg[1]
                  flags == th[t].acc[1]
              IN  /\ \A n \in FlagNames : (BitAnd(flags, FlagValue(n)) # 0) <=> (n \in S)
                  /\ S = {"Join", "Spectate"} =>
                        flags = 6 /\ BitAnd(flags, ActivityFlagPlay) = 0
                  /\ th[t].pc = "done" => th[t].ret[2] = (th[t].ret[1] \in S)

\* The test of play against join | spectate = 6 has returned false.
C16_Witness ==
    \E t \in Threads :
        /\ th[t].op = "Flags" /\ th[t].pc = "done"
        /\ th[t].arg[1] = {"Join", "Spectate"}
        /\ th[t].acc[1] = 6
        /\ th[t].ret = <<"Play", FALSE>>

\* ----------------------------------------------------------------- C17

\* One caller that copies a cache entry onto a handle of a cache entry, the
\* same entry or the other one, and is scheduled whenever it can take a step.
NextC17 ==
    \/ calls < MaxRepeat /\ \E u \in Shared, o \in Shared : CallCopyOverTo(1, u, UserRef(o))
    \/ CopyStep(1)
    \/ Resume(1)

SpecC17 == Init /\ [][NextC17]_vars /\ WF_vars(CopyStep(1))

\* Goroutine t runs u.CopyOverTo(u).
InSelfCopy(t) ==
    /\ InCopyOverTo(t)
    /\ th[t].other.addr = th[t].self
    /\ th[t].pc \notin {"idle", "done"}

\* C17: a call u.CopyOverTo(u) returns, without error; it does not stay for
\* ever in the Lock() of the User whose read lock it holds.
C17_SelfCopyReturns ==
    InSelfCopy(1) ~> (th[1].pc = "done" /\ th[1].err = Nil)

\* ----------------------------------------------------------------- C18

\* Goroutine t has returned from CopyOverTo, or from the CopyOverTo that
\* DeepCopy calls.
CopyReturned(t) ==
    /\ th[t].op \in {"CopyOverTo", "DeepCopy"}
    /\ th[t].pc \in {"dc_ret", "done"}

\* C18: a goroutine that has returned from CopyOverTo or DeepCopy, with or
\* without the type-mismatch error, holds no read lock and no write lock;
\* the lock it is about to release is one it holds, the read lock is released
\* before the write lock and not again; and when no goroutine is inside a
\* call, the lock of every User is free.
C18_LockBalance ==
    /\ \A t \in Threads :
          /\ CopyReturned(t) => HoldsNoLock(t)
          /\ th[t].pc = "runlock" =>
                HoldsRead(t, th[t].self) /\ HoldsWrite(t, th[t].other.addr)
          /\ th[t].pc = "unlock" =>
                ~HoldsRead(t, th[t].self) /\ HoldsWrite(t, th[t].other.addr)
    /\ (\A t \in Threads : th[t].pc \in {"idle", "done"}) =>
          \A x \in Addrs : rw[x].readers = {} /\ rw[x].w = 0 /\ ~rw[x].held

\* A CopyOverTo between two Users, which wrote the target, and a DeepCopy
\* have both returned and every lock is free.
C18_Witness ==
    \E t, s \in Threads :
        /\ th[t].op = "CopyOverTo" /\ th[t].pc = "done" /\ th[t].err = Nil
        /\ th[t].self = 1 /\ th[t].other = UserRef(2)
        /\ users[2].Username = "Ann"
        /\ th[s].op = "DeepCopy" /\ th[s].pc = "done"
        /\ Len(users) = 3
        /\ \A x \in Addrs : rw[x].readers = {} /\ rw[x].w = 0

\* ----------------------------------------------------------------- C19

\* A third hydrated user.
Cyd ==
    [ID |-> 3, Username |-> "Cyd", Discriminator |-> "0003",
     Email |-> "cyd@x", avatar |-> <<"c.png">>, Token |-> "tok3",
     Verified |-> TRUE, MFAEnabled |-> TRUE, Bot |-> TRUE]

\* The state in which three cache entries hold p, q and r.
InitThree(p, q, r) ==
    /\ heap = p.avatar \o q.avatar \o r.avatar
    /\ users = <<Hydrated(p, Len(p.avatar)),
                 Hydrated(q, Len(p.avatar) + Len(q.avatar)),
                 Hydrated(r, Len(p.avatar) + Len(q.avatar) + Len(r.avatar))>>
    /\ rw = <<NewRWMutex, NewRWMutex, NewRWMutex>>
    /\ presence = InitPresence
    /\ th = [t \in Threads |-> Idle]
    /\ calls = 0
    /\ muts = 0

\* Goroutine 1 repeats A.DeepCopy() for the cache entry A = 1 while
\* goroutine 2 repeats B.CopyOverTo(A) and C.CopyOverTo(A) for B = 2, C = 3.
NextC19 ==
    \/ calls < MaxRepeat /\ CallDeepCopy(1, 1)
    \/ calls < MaxRepeat /\ \E u \in {2, 3} : CallCopyOverTo(2, u, UserRef(1))
    \/ DeepCopyNew(1)
    \/ CopyStep(1)
    \/ DeepCopyReturn(1)
    \/ CopyStep(2)
    \/ \E t \in Threads : Resume(t)

SpecC19 == InitThree(Ann, Bob, Cyd) /\ [][NextC19]_vars

\* The scalar fields of user x are those of the hydrated user p.
ScalarsOf(x, p) ==
    \A k \in 1..Len(CopyFields) : users[x][CopyFields[k]] = p[CopyFields[k]]

\* A has the values of one of the users that it was hydrated with or that a
\* finished CopyOverTo gave it.
C19_Snapshot ==
    /\ (th[1].op = "DeepCopy" /\ th[1].pc = "runlock") =>
          /\ SameScalars(1, th[1].other.addr)
          /\ \E p \in {Ann, Bob, Cyd} : ScalarsOf(1, p)
    /\ (th[1].op = "DeepCopy" /\ th[1].pc \in {"unlock", "dc_ret", "done"}) =>
          \E p \in {Ann, Bob, Cyd} : ScalarsOf(th[1].other.addr, p)

C19_StableUnderReadLock ==
    HoldsRead(1, 1) =>
        \A k \in 1..Len(CopyFields) : users'[1][CopyFields[k]] = users[1][CopyFields[k]]

\* C19: when A.DeepCopy() runs while other goroutines copy other Users into
\* A, the scalar fields of A do not change from DeepCopy's RLock to its
\* RUnlock; at the RUnlock the copy's scalar fields equal A's, which are
\* those of one User as a whole, and the copy DeepCopy returns has the scalar
\* fields of one User as a whole, never some of one and some of another.
C19_DeepCopyIsSnapshot == []C19_Snapshot /\ [][C19_StableUnderReadLock]_vars

\* DeepCopy has returned a copy that holds what B.CopyOverTo(A) gave A,
\* while C.CopyOverTo(A) is in the middle of its writes to A.
C19_Witness ==
    /\ th[1].op = "DeepCopy" /\ th[1].pc = "done"
    /\ ScalarsOf(th[1].ret[1].addr, Bob)
    /\ th[2].op = "CopyOverTo" /\ th[2].self = 3 /\ th[2].pc = "write"
    /\ users[1].ID = Cyd.ID /\ users[1].Discriminator = Bob.Discriminator

\* ----------------------------------------------------------------- C20

\* Goroutine 1 repeats A.CopyOverTo(B) and goroutine 2 C.CopyOverTo(B), for
\* the cache entries A = 1, B = 2, C = 3.
NextC20 ==
    \/ calls < MaxRepeat /\ CallCopyOverTo(1, 1, UserRef(2))
    \/ calls < MaxRepeat /\ CallCopyOverTo(2, 3, UserRef(2))
    \/ \E t \in Threads : CopyStep(t)
    \/ \E t \in Threads : Resume(t)

SpecC20 == InitThree(Ann, Bob, Cyd) /\ [][NextC20]_vars

\* Goroutine t is between user.Lock() and user.Unlock(): from before its
\* first write until after its last.
InWriteSection(t) == th[t].pc \in {"write", "avatar", "runlock", "unlock"}

C20_OneWriter ==
    /\ ~(InWriteSection(1) /\ InWriteSection(2))
    /\ \A t \in Threads : InWriteSection(t) => HoldsWrite(t, 2)

C20_WholeResult ==
    ((\A t \in Threads : th[t].pc \in {"idle", "done"}) /\ calls > 0) =>
        ScalarsOf(2, Ann) \/ ScalarsOf(2, Cyd)

C20_SourcesUnchanged == UserView(1)' = UserView(1) /\ UserView(3)' = UserView(3)

\* C20: while A.CopyOverTo(B) and C.CopyOverTo(B) run concurrently, at most
\* one of the two goroutines is between its Lock and its Unlock of B, and so
\* between its first and last write to B; when both have returned, the
\* scalar fields of B are all A's or all C's; no step changes A or C.
C20_WritersExclude ==
    /\ []C20_OneWriter
    /\ []C20_WholeResult
    /\ [][C20_SourcesUnchanged]_vars

\* A.CopyOverTo(B) has written the ID and not yet the Username, which is
\* still the one an earlier C.CopyOverTo(B) wrote, while the next
\* C.CopyOverTo(B) waits in Lock().
C20_Witness ==
    /\ th[1].pc = "write" /\ th[1].i = 2
    /\ users[2].ID = Ann.ID /\ users[2].Username = Cyd.Username
    /\ th[2].pc = "lock" /\ rw[2].w = 1
====
